---- MODULE Spec2Model ----
(***************************************************************************)
(* Tiered username-uniqueness resolution of the HRMS service:              *)
(* cuckoo filter -> moka cache -> users table, the register handler that   *)
(* claims a username, and the two warmup jobs spawned by main.             *)
(*                                                                         *)
(* Strings are sequences of one-character strings, so that to_lowercase    *)
(* and trim are computed character by character.                           *)
(***************************************************************************)
EXTENDS Integers, Sequences, FiniteSets, TLC

\* ------------------------------------------------------------------ bounds
MaxRequests == 2        \* requests accepted over the life of the process
NUM_SLOTS == 3          \* size of the filter's fingerprint/bucket space

\* ------------------------------------------------- program constants (scaled)
CACHE_TTL == 2          \* time_to_live(86400 s), in clock ticks
MAX_CAPACITY == 2       \* max_capacity(500_000), in entries
FILTER_BATCH == 2       \* warmup_username_filter(.., 100)
CACHE_BATCH == 2        \* warmup_username_cache(.., 30, 250)

\* ----------------------------------------------------------------- strings
Chars == {"a", "A", "b", "c", " "}

\* the worker threads that serve requests
Workers == {1, 2}

\* raw usernames a client may send
RawNames == {<<"a">>, <<"A">>, <<" ", "a">>, <<" ", "A">>, <<"b">>, <<" ">>}

\* passwords a client may send
Passwords == {<<>>, <<"p">>}

\* char::to_lowercase
LowerChar(ch) == IF ch = "A" THEN "a" ELSE ch

\* str::to_lowercase
to_lowercase(s) == [i \in 1..Len(s) |-> LowerChar(s[i])]

\* username_filter::normalize
normalize(username) == to_lowercase(username)

IsSpace(ch) == ch = " "

RECURSIVE trim_start(_)
trim_start(s) ==
    IF s = <<>> THEN <<>>
    ELSE IF IsSpace(Head(s)) THEN trim_start(Tail(s)) ELSE s

RECURSIVE trim_end(_)
trim_end(s) ==
    IF s = <<>> THEN <<>>
    ELSE IF IsSpace(s[Len(s)]) THEN trim_end(SubSeq(s, 1, Len(s) - 1)) ELSE s

\* str::trim
trim(s) == trim_end(trim_start(s))

\* --------------------------------------------------------- cuckoo filter
\* The filter keeps, per item, a fingerprint in one of two candidate
\* buckets, both derived from the item's hash; two items with the same hash
\* are indistinguishable to it.  filter[s] counts the stored fingerprints of
\* hash s; the autoscaling filter grows instead of rejecting an add.
Slots == 0..(NUM_SLOTS - 1)

CharCode(ch) == CASE ch = " " -> 1
                  [] ch = "a" -> 1
                  [] ch = "A" -> 4
                  [] ch = "b" -> 2
                  [] ch = "c" -> 3

RECURSIVE HashSum(_)
HashSum(s) == IF s = <<>> THEN 0 ELSE CharCode(Head(s)) + HashSum(Tail(s))

Hash(item) == HashSum(item) % NUM_SLOTS

EmptyFilter == [s \in Slots |-> 0]

\* CuckooFilter::contains
Contains(f, item) == f[Hash(item)] > 0

AddLossy(f, item) == [s \in Slots |-> IF s = Hash(item) THEN 1 ELSE 0]

\* CuckooFilter::add
Add(f, item) == [f EXCEPT ![Hash(item)] = @ + 1]

\* CuckooFilter::remove
FilterRemove(f, item) == [f EXCEPT ![Hash(item)] = IF @ > 0 THEN @ - 1 ELSE 0]

\* username_filter::might_exist
might_exist(f, username) == Contains(f, normalize(username))

\* username_filter::insert
insert(f, username) == Add(f, normalize(username))

\* username_filter::remove (no caller in the program)
remove(f, username) == FilterRemove(f, normalize(username))

RECURSIVE insert_batch(_, _)
\* username_filter::insert_batch: one write-lock hold, add every member
insert_batch(f, usernames) ==
    IF usernames = <<>> THEN f
    ELSE insert_batch(Add(f, Head(usernames)), Tail(usernames))

\* ------------------------------------------------------------ moka cache
\* An entry is [key, val, age]: the value stored and the time elapsed since
\* its insertion, counted in clock ticks up to the time to live.
Live(e) == e.age < CACHE_TTL

\* Cache::get: the value of the unexpired entry of the key, if any
cache_get(c, key) == {e.val : e \in {x \in c : x.key = key /\ Live(x)}}

cache_insert_if_absent(c, key, val) ==
    IF \E e \in c : e.key = key /\ e.age < CACHE_TTL
    THEN {c}
    ELSE LET put == {e \in c : e.key # key /\ e.age < CACHE_TTL}
                      \cup {[key |-> key, val |-> val, age |-> 0]}
         IN  IF Cardinality(put) > MAX_CAPACITY
             THEN {put \ {victim} : victim \in put}
             ELSE {put}

\* the caches Cache::insert may leave: the entry of the key is replaced and
\* stamped anew, expired entries are dropped, and when the bound is
\* exceeded the eviction policy removes one entry of its choosing
cache_insert(c, key, val) ==
    LET put == {e \in c : e.key # key /\ Live(e)}
                 \cup {[key |-> key, val |-> val, age |-> 0]}
    IN  IF Cardinality(put) > MAX_CAPACITY
        THEN {put \ {victim} : victim \in put}
        ELSE {put}

\* the cache one clock tick later
Aged(c) == {[e EXCEPT !.age = IF @ < CACHE_TTL THEN @ + 1 ELSE @] : e \in c}

\* username_cache::mark_taken
mark_taken(c, username) == cache_insert(c, to_lowercase(username), TRUE)

\* username_cache::is_taken: get(..).unwrap_or(false)
is_taken(c, username) == TRUE \in cache_get(c, to_lowercase(username))

RECURSIVE batch_mark_available(_, _)
batch_mark_available(c, usernames) ==
    IF usernames = <<>> THEN {c}
    ELSE UNION {batch_mark_available(c2, Tail(usernames)) :
                  c2 \in cache_insert(c, to_lowercase(Head(usernames)), FALSE)}

RECURSIVE batch_mark(_, _)
\* username_cache::batch_mark: every member of the batch is inserted
batch_mark(c, usernames) ==
    IF usernames = <<>> THEN {c}
    ELSE UNION {batch_mark(c2, Tail(usernames)) :
                  c2 \in cache_insert(c, to_lowercase(Head(usernames)), TRUE)}

\* ------------------------------------------------------------ users table
\* A row is [username, recent]; recent stands for
\* last_login_at >= NOW() - INTERVAL 30 DAY.  The column is compared under
\* the table's case-insensitive collation; leading blanks are significant.
CollationEq(x, y) == to_lowercase(x) = to_lowercase(y)

\* SELECT EXISTS(SELECT 1 FROM users WHERE username = ? LIMIT 1)
select_exists(u, username) == \E r \in u : CollationEq(r.username, username)

DuplicateKeyBinary(u, username) == \E r \in u : r.username = username

\* the unique key on users.username (SQLSTATE 23000 on a duplicate)
DuplicateKey(u, username) == \E r \in u : CollationEq(r.username, username)

\* INSERT INTO users (username, password) VALUES (?, ?): last_login_at unset
insert_row(u, username) == u \cup {[username |-> username, recent |-> FALSE]}


\* SELECT username FROM users
AllUsernames(u) == {r.username : r \in u}

\* SELECT username FROM users WHERE last_login_at >= NOW() - INTERVAL ? DAY
RecentUsernames(u) == {r.username : r \in {x \in u : x.recent}}

\* the rows a cursor may deliver, in any order
Orders(S) == {q \in [1..Cardinality(S) -> S] : \A x \in S : \E i \in DOMAIN q : q[i] = x}

\* tables the service may be started on (the unique key holds)
Row(username, recent) == [username |-> username, recent |-> recent]

InitTables == {{},
               {Row(<<"a">>, TRUE)},
               {Row(<<"A">>, FALSE), Row(<<"b">>, TRUE)},
               {Row(<<"a">>, TRUE), Row(<<"b">>, TRUE), Row(<<"c">>, FALSE)}}

\* ------------------------------------------------------------------ state
VARIABLES
    users,      \* the users table (authoritative store)
    filter,     \* USERNAME_FILTER
    cache,      \* USERNAME_CACHE
    reqs,       \* per worker: the request it is serving and how far it got
    nreq,       \* requests accepted so far
    claimed,    \* raw usernames whose registration was answered Created
    added,      \* the items CuckooFilter::add has been called with
    marks,      \* the calls of mark_taken that ran: per key, how many and
                \* the time since the latest
    fw,         \* the filter warmup task spawned by main
    cw,         \* the cache warmup task spawned by main
    lock,       \* the RwLock around USERNAME_FILTER: who holds it for
                \* writing, and whether a writer panicked while holding it
    refresh_tokens,  \* the refresh_tokens table
    treqs,           \* per worker: the refresh or logout request it serves
    leave_requests,  \* the leave_requests table
    lreqs            \* per worker: the approve or reject request it serves

\* the tables and requests of the token and of the leave handlers
sessions == <<refresh_tokens, treqs>>
leaves == <<leave_requests, lreqs>>

\* the state of the username tiers, but for the count of requests
uniqueness == <<users, filter, cache, reqs, claimed, added, marks, fw, cw, lock>>

vars == <<users, filter, cache, reqs, nreq, claimed, added, marks, fw, cw,
          lock, refresh_tokens, treqs, leave_requests, lreqs>>

NoName == <<>>

Idle == [kind |-> "idle", raw |-> NoName, pc |-> "idle", resp |-> "none",
         avail |-> "none", tiers |-> {}, lookup |-> "none", ins |-> "none",
         fresh |-> FALSE,
         fadd |-> {}, cput |-> {}]

\* a warmup task: the rows its cursor still has to deliver, the batch being
\* accumulated, the sizes of the batches flushed so far and the usernames
\* of the rows delivered so far
Spawned == [pc |-> "spawned", stream |-> <<>>, batch |-> <<>>, total |-> 0,
            flushed |-> <<>>, seen |-> {}]

\* a request of the token handlers: the token presented, the row found by
\* the SELECT and the refresh token issued
NoToken == [kind |-> "idle", token |-> [type |-> "none", jti |-> 0], pc |-> "idle", resp |-> "none",
            record |-> 0, issued |-> 0]

\* refresh_tokens after logins: a row is [jti, revoked]; one token is in
\* use, one was revoked by a logout
LoggedIn == {[jti |-> 1, revoked |-> FALSE], [jti |-> 2, revoked |-> TRUE]}

\* a request of the leave handlers
NoLeave == [kind |-> "idle", leave_id |-> 0, pc |-> "idle", resp |-> "none"]

\* leave_requests after create_leave: a row is [id, status, updates], where
\* updates counts the UPDATE statements that changed the row
Submitted == {[id |-> 1, status |-> "pending", updates |-> 0],
              [id |-> 2, status |-> "pending", updates |-> 0]}

\* RwLock::new: nobody holds the lock, it is not poisoned
Unlocked == [writer |-> "none", poisoned |-> FALSE, adds |-> 0]

Init ==
    /\ users \in InitTables
    /\ filter = EmptyFilter
    /\ cache = {}
    /\ reqs = [w \in Workers |-> Idle]
    /\ nreq = 0
    /\ claimed = {}
    /\ added = {}
    /\ marks = {}
    /\ fw = Spawned
    /\ cw = Spawned
    /\ lock = Unlocked
    /\ refresh_tokens = LoggedIn
    /\ treqs = [w \in Workers |-> NoToken]
    /\ leave_requests = Submitted
    /\ lreqs = [w \in Workers |-> NoLeave]

\* ------------------------------------------------- is_username_available
\* The answers the existence query may produce: its result, or an error.
LookupAnswers(u, username) ==
    {"error", IF select_exists(u, username) THEN "exists" ELSE "absent"}

FailOpen(ans) == ans = "exists"

\* .fetch_one(pool).await.unwrap_or(true)
FailSafe(ans) == IF ans = "error" THEN TRUE ELSE ans = "exists"

\* what is_username_available returns once it holds `exists`
FromExists(exists) == IF exists THEN "no" ELSE "yes"

\* where a request goes once is_username_available has returned
AfterAvailable(r, avail) ==
    IF r.kind = "check"
    THEN [r EXCEPT !.avail = avail, !.pc = "done",
                   !.resp = IF avail = "yes" THEN "Available" ELSE "Unavailable"]
    ELSE IF avail = "no"
         THEN [r EXCEPT !.avail = avail, !.pc = "done", !.resp = "ConflictTaken"]
         ELSE [r EXCEPT !.avail = avail, !.pc = "insert"]

\* step 1 of is_username_available: the filter, under its read lock
FilterStep(r, f) ==
    IF ~might_exist(f, to_lowercase(r.raw))
    THEN AfterAvailable([r EXCEPT !.tiers = {"filter"}], "yes")
    ELSE [r EXCEPT !.tiers = {"filter"}, !.pc = "cache"]

CacheStepSkipStore(r, c) ==
    IF is_taken(c, to_lowercase(r.raw))
    THEN AfterAvailable([r EXCEPT !.tiers = @ \cup {"cache"}], "no")
    ELSE AfterAvailable([r EXCEPT !.tiers = @ \cup {"cache"}], "yes")

\* step 2: the cache
CacheStep(r, c) ==
    IF is_taken(c, to_lowercase(r.raw))
    THEN AfterAvailable([r EXCEPT !.tiers = @ \cup {"cache"}], "no")
    ELSE [r EXCEPT !.tiers = @ \cup {"cache"}, !.pc = "db"]

\* step 3: the database fallback
DbStep(r, ans) ==
    AfterAvailable([r EXCEPT !.tiers = @ \cup {"store"}, !.lookup = ans],
                   FromExists(FailSafe(ans)))

ExistsBranchInsert(f, username, exists) ==
    IF exists THEN insert(f, username) ELSE f

\* the filter after `if exists { .. return false; }`: the insert and
\* mark_taken calls of that branch are commented out, nothing is written
ExistsBranch(f, username, exists) == f

FreeAfterWarmup(w) ==
    /\ reqs[w].pc \in {"idle", "done"}
    /\ \A v \in Workers : v < w => reqs[v].pc \notin {"idle", "done"}
    /\ fw.pc \in {"done", "failed"} /\ cw.pc \in {"done", "failed"}

\* The warmups are spawned, not awaited, before HttpServer::new(..).run().
\* a request is handed to the first worker that is not serving one
Free(w) ==
    /\ reqs[w].pc \in {"idle", "done"}
    /\ \A v \in Workers : v < w => reqs[v].pc \notin {"idle", "done"}

\* a request enters a worker: `register` validates, both kinds then run the
\* filter check of is_username_available on the raw username
NewRequest(kind, raw) ==
    [Idle EXCEPT !.kind = kind, !.raw = raw,
                 !.fresh = ~DuplicateKey(users, trim(raw))]

Register(w, raw, pw) ==
    /\ Free(w)
    /\ nreq < MaxRequests
    /\ nreq' = nreq + 1
    /\ reqs' = [reqs EXCEPT ![w] =
                  IF trim(raw) = <<>> \/ pw = <<>>
                  THEN [NewRequest("register", raw) EXCEPT
                          !.pc = "done", !.resp = "BadRequest"]
                  ELSE FilterStep(NewRequest("register", raw), filter)]
    /\ UNCHANGED <<users, filter, cache, claimed, added, fw, cw, marks, lock, sessions, leaves>>

IsUsernameAvailable(w, raw) ==
    /\ Free(w)
    /\ nreq < MaxRequests
    /\ nreq' = nreq + 1
    /\ reqs' = [reqs EXCEPT ![w] = FilterStep(NewRequest("check", raw), filter)]
    /\ UNCHANGED <<users, filter, cache, claimed, added, fw, cw, marks, lock, sessions, leaves>>

CheckCache(w) ==
    /\ reqs[w].pc = "cache"
    /\ reqs' = [reqs EXCEPT ![w] = CacheStep(reqs[w], cache)]
    /\ UNCHANGED <<users, filter, cache, nreq, claimed, added, fw, cw, marks, lock, sessions, leaves>>

CheckDb(w) ==
    /\ reqs[w].pc = "db"
    /\ \E ans \in LookupAnswers(users, to_lowercase(reqs[w].raw)) :
          /\ reqs' = [reqs EXCEPT ![w] = DbStep(reqs[w], ans)]
          /\ filter' = ExistsBranch(filter, to_lowercase(reqs[w].raw), FailSafe(ans))
    /\ UNCHANGED <<users, cache, nreq, claimed, added, fw, cw, marks, lock, sessions, leaves>>

\* ------------------------------------------------------------ insert_user
\* The outcomes of the INSERT: Ok, a Database error of code 23000 when the
\* unique key is violated, or another sqlx error.
InsertOutcomes(u, username) ==
    {"error", IF DuplicateKey(u, username) THEN "dup" ELSE "ok"}

ErrorResponseNoConflict(ins) == "InternalError"

\* Err(e): 23000 is answered Conflict, any other error InternalServerError
ErrorResponse(ins) == IF ins = "dup" THEN "ConflictExists" ELSE "InternalError"

\* `username_cache::mark_taken(username);` -- the future is created and
\* dropped without being awaited, so the cache insert never runs
mark_taken_dropped(c, username) == {c}

MatchFilterAlways(f, username, ins) == insert(f, username)

\* the filter after `match result`: only the Ok arm inserts
MatchFilter(f, username, ins) == IF ins = "ok" THEN insert(f, username) ELSE f

MatchCacheAlways(c, username, ins) == mark_taken(c, username)

\* the caches after `match result`
MatchCache(c, username, ins) ==
    IF ins = "ok" THEN mark_taken_dropped(c, username) ELSE {c}

\* the response register sends for the result of insert_user
MatchResponse(ins) == IF ins = "ok" THEN "Created" ELSE ErrorResponse(ins)

\* the INSERT statement runs in the database
InsertUser(w) ==
    /\ reqs[w].pc = "insert"
    /\ \E ins \in InsertOutcomes(users, trim(reqs[w].raw)) :
         /\ users' = IF ins = "ok" THEN insert_row(users, trim(reqs[w].raw))
                     ELSE users
         /\ reqs' = [reqs EXCEPT ![w] = [@ EXCEPT !.ins = ins, !.pc = "match"]]
    /\ UNCHANGED <<filter, cache, nreq, claimed, added, fw, cw, marks, lock, sessions, leaves>>

\* insert_user resumes with the result, updates the in-memory tiers and
\* register answers
MatchResult(w) ==
    /\ reqs[w].pc = "match"
    /\ LET r == reqs[w]
           username == trim(r.raw)
       IN  /\ filter' = MatchFilter(filter, username, r.ins)
           /\ cache' \in MatchCache(cache, username, r.ins)
           /\ reqs' = [reqs EXCEPT ![w] =
                        [r EXCEPT !.pc = "done",
                                  !.resp = MatchResponse(r.ins),
                                  !.fadd = {s \in Slots : filter'[s] # filter[s]},
                                  !.cput = {e.key : e \in cache' \ cache}]]
           /\ claimed' = IF MatchResponse(r.ins) = "Created"
                         THEN claimed \cup {r.raw} ELSE claimed
           /\ added' = IF r.ins = "ok"
                       THEN added \cup {normalize(username)} ELSE added
    /\ UNCHANGED <<users, nreq, fw, cw, marks, lock, sessions, leaves>>

\* time passes: every unexpired entry comes one tick closer to its expiry
Tick ==
    /\ \E e \in cache : Live(e)
    /\ cache' = Aged(cache)
    /\ marks' = {[m EXCEPT !.since = IF @ < CACHE_TTL THEN @ + 1 ELSE @] : m \in marks}
    /\ UNCHANGED <<users, filter, reqs, nreq, claimed, added, fw, cw, lock, sessions, leaves>>

\* ------------------------------------------------- warmup_username_filter
\* the SELECT is executed: the cursor will deliver the rows present now
FilterWarmupQuery ==
    /\ fw.pc = "spawned"
    /\ \E q \in Orders(AllUsernames(users)) :
         fw' = [fw EXCEPT !.pc = "streaming", !.stream = q]
    /\ UNCHANGED <<users, filter, cache, reqs, nreq, claimed, added, cw, marks, lock, sessions, leaves>>

FilterWarmupErrorFlush ==
    /\ fw.pc = "streaming"
    /\ filter' = insert_batch(filter, fw.batch)
    /\ added' = added \cup {fw.batch[i] : i \in DOMAIN fw.batch}
    /\ fw' = [fw EXCEPT !.pc = "failed", !.batch = <<>>]
    /\ UNCHANGED <<users, cache, reqs, nreq, claimed, cw, marks, lock, sessions, leaves>>

\* stream.next() yields Some(Err): `?` returns, nothing more is inserted
FilterWarmupError ==
    /\ fw.pc = "streaming"
    /\ fw' = [fw EXCEPT !.pc = "failed"]
    /\ UNCHANGED <<users, filter, cache, reqs, nreq, claimed, added, cw, marks, lock, sessions, leaves>>

FilterWarmupRowNoInsert ==
    /\ fw.pc = "streaming"
    /\ fw.stream # <<>>
    /\ LET batch == Append(fw.batch, normalize(Head(fw.stream)))
       IN  fw' = [fw EXCEPT !.stream = Tail(@),
                            !.batch = IF Len(batch) = FILTER_BATCH
                                      THEN <<>> ELSE batch,
                            !.total = @ + 1,
                            !.flushed = IF Len(batch) = FILTER_BATCH
                                        THEN Append(@, Len(batch)) ELSE @,
                            !.seen = @ \cup {Head(fw.stream)}]
    /\ UNCHANGED <<users, filter, added, cache, reqs, nreq, claimed, cw, marks, lock, sessions, leaves>>

\* stream.next() yields Some(Ok(row)): push, flush when the batch is full
FilterWarmupRow ==
    /\ fw.pc = "streaming"
    /\ fw.stream # <<>>
    /\ LET batch == Append(fw.batch, normalize(Head(fw.stream)))
       IN  IF Len(batch) = FILTER_BATCH
           THEN /\ filter' = insert_batch(filter, batch)
                /\ added' = added \cup {batch[i] : i \in DOMAIN batch}
                /\ fw' = [fw EXCEPT !.stream = Tail(@), !.batch = <<>>,
                                    !.total = @ + 1,
                                    !.flushed = Append(@, Len(batch)),
                                    !.seen = @ \cup {Head(fw.stream)}]
           ELSE /\ filter' = filter
                /\ added' = added
                /\ fw' = [fw EXCEPT !.stream = Tail(@), !.batch = batch,
                                    !.total = @ + 1,
                                    !.seen = @ \cup {Head(fw.stream)}]
    /\ UNCHANGED <<users, cache, reqs, nreq, claimed, cw, marks, lock, sessions, leaves>>

FilterWarmupEndNoFlush ==
    /\ fw.pc = "streaming"
    /\ fw.stream = <<>>
    /\ filter' = filter
    /\ added' = added
    /\ fw' = [fw EXCEPT !.pc = "done", !.batch = <<>>]
    /\ UNCHANGED <<users, cache, reqs, nreq, claimed, cw, marks, lock, sessions, leaves>>

\* stream.next() yields None: flush the partial batch, return Ok
FilterWarmupEnd ==
    /\ fw.pc = "streaming"
    /\ fw.stream = <<>>
    /\ IF fw.batch # <<>>
       THEN /\ filter' = insert_batch(filter, fw.batch)
            /\ added' = added \cup {fw.batch[i] : i \in DOMAIN fw.batch}
            /\ fw' = [fw EXCEPT !.pc = "done", !.batch = <<>>,
                                !.flushed = Append(@, Len(fw.batch))]
       ELSE /\ filter' = filter
            /\ added' = added
            /\ fw' = [fw EXCEPT !.pc = "done"]
    /\ UNCHANGED <<users, cache, reqs, nreq, claimed, cw, marks, lock, sessions, leaves>>

\* -------------------------------------------------- warmup_username_cache
CacheWarmupQueryAll ==
    /\ cw.pc = "spawned"
    /\ \E q \in Orders(AllUsernames(users)) :
         cw' = [cw EXCEPT !.pc = "streaming", !.stream = q]
    /\ UNCHANGED <<users, filter, cache, reqs, nreq, claimed, added, fw, marks, lock, sessions, leaves>>

\* the cursor over the rows of the last `days` days is opened
CacheWarmupQuery ==
    /\ cw.pc = "spawned"
    /\ \E q \in Orders(RecentUsernames(users)) :
         cw' = [cw EXCEPT !.pc = "streaming", !.stream = q]
    /\ UNCHANGED <<users, filter, cache, reqs, nreq, claimed, added, fw, marks, lock, sessions, leaves>>

CacheWarmupError ==
    /\ cw.pc = "streaming"
    /\ cw' = [cw EXCEPT !.pc = "failed"]
    /\ UNCHANGED <<users, filter, cache, reqs, nreq, claimed, added, fw, marks, lock, sessions, leaves>>

CacheWarmupRow ==
    /\ cw.pc = "streaming"
    /\ cw.stream # <<>>
    /\ LET batch == Append(cw.batch, Head(cw.stream))
       IN  IF Len(batch) >= CACHE_BATCH
           THEN /\ cache' \in batch_mark(cache, batch)
                /\ cw' = [cw EXCEPT !.stream = Tail(@), !.batch = <<>>,
                                    !.total = @ + 1,
                                    !.flushed = Append(@, Len(batch)),
                                    !.seen = @ \cup {Head(cw.stream)}]
           ELSE /\ cache' = cache
                /\ cw' = [cw EXCEPT !.stream = Tail(@), !.batch = batch,
                                    !.total = @ + 1,
                                    !.seen = @ \cup {Head(cw.stream)}]
    /\ UNCHANGED <<users, filter, reqs, nreq, claimed, added, fw, marks, lock, sessions, leaves>>

CacheWarmupEndAlwaysFlush ==
    /\ cw.pc = "streaming"
    /\ cw.stream = <<>>
    /\ cache' \in batch_mark(cache, cw.batch)
    /\ cw' = [cw EXCEPT !.pc = "done", !.batch = <<>>,
                        !.flushed = Append(@, Len(cw.batch))]
    /\ UNCHANGED <<users, filter, reqs, nreq, claimed, added, fw, marks, lock, sessions, leaves>>

\* stream.next() yields None: mark the partial batch, return Ok
CacheWarmupEnd ==
    /\ cw.pc = "streaming"
    /\ cw.stream = <<>>
    /\ IF cw.batch # <<>>
       THEN /\ cache' \in batch_mark(cache, cw.batch)
            /\ cw' = [cw EXCEPT !.pc = "done", !.batch = <<>>,
                                !.flushed = Append(@, Len(cw.batch))]
       ELSE /\ cache' = cache
            /\ cw' = [cw EXCEPT !.pc = "done"]
    /\ UNCHANGED <<users, filter, reqs, nreq, claimed, added, fw, marks, lock, sessions, leaves>>

\* --------------------------------------------------- mark_taken by itself
\* a caller awaits mark_taken(username)
MarkTaken(username) ==
    /\ cache' \in mark_taken(cache, username)
    /\ marks' = {m \in marks : m.key # to_lowercase(username)} \cup
                 {[key |-> to_lowercase(username), since |-> 0,
                   calls |-> IF \E m \in marks : m.key = to_lowercase(username)
                             THEN 2 ELSE 1]}
    /\ UNCHANGED <<users, filter, reqs, nreq, claimed, added, fw, cw, lock, sessions, leaves>>

\* ----------------------------------------------------------- specification
Next ==
    \/ \E w \in Workers, raw \in RawNames, pw \in Passwords : Register(w, raw, pw)
    \/ \E w \in Workers, raw \in RawNames : IsUsernameAvailable(w, raw)
    \/ \E w \in Workers : CheckCache(w)
    \/ \E w \in Workers : CheckDb(w)
    \/ \E w \in Workers : InsertUser(w)
    \/ \E w \in Workers : MatchResult(w)
    \/ Tick
    \/ FilterWarmupQuery
    \/ FilterWarmupError
    \/ FilterWarmupRow
    \/ FilterWarmupEnd
    \/ CacheWarmupQuery
    \/ CacheWarmupError
    \/ CacheWarmupRow
    \/ CacheWarmupEnd

Spec == Init /\ [][Next]_vars

\* mark_taken and the clock alone, on an empty cache
InitCache == Init /\ users = {}

NextCache ==
    \/ \E username \in RawNames : MarkTaken(username)
    \/ Tick

SpecCache == InitCache /\ [][NextCache]_vars

\* ------------------------------------------------- the filter's RwLock
\* The same handlers and the filter warmup with every operation on the lock
\* of USERNAME_FILTER as a step of its own.  lock.adds counts the add calls
\* made under the current write guard.

\* RwLock::read or write returns Ok: no writer holds it, it is not poisoned
Acquirable(l) == l.writer = "none" /\ ~l.poisoned

\* RwLock::read or write returns Err(PoisonError)
Poisoned(l) == l.writer = "none" /\ l.poisoned

\* .expect("username filter poisoned") on Err: the task panics, the client
\* gets no response
Panicked(r) == [r EXCEPT !.pc = "done", !.resp = "Panicked"]

\* might_exist at the head of is_username_available takes the read lock
LockedRegister(w, raw, pw) ==
    /\ trim(raw) = <<>> \/ pw = <<>> \/ Acquirable(lock)
    /\ Register(w, raw, pw)

LockedIsUsernameAvailable(w, raw) ==
    /\ Acquirable(lock)
    /\ IsUsernameAvailable(w, raw)

\* might_exist finds the lock poisoned
MightExistPoisoned(w, kind, raw) ==
    /\ Poisoned(lock)
    /\ Free(w)
    /\ nreq < MaxRequests
    /\ kind = "register" => trim(raw) # <<>>
    /\ nreq' = nreq + 1
    /\ reqs' = [reqs EXCEPT ![w] = Panicked(NewRequest(kind, raw))]
    /\ UNCHANGED <<users, filter, cache, claimed, added, fw, cw, marks, lock, sessions, leaves>>

\* username_filter::insert in the Ok arm takes the write lock
LockedMatchResult(w) ==
    /\ reqs[w].ins = "ok" => Acquirable(lock)
    /\ MatchResult(w)

\* username_filter::insert finds the lock poisoned, after the row was stored
InsertPoisoned(w) ==
    /\ reqs[w].pc = "match"
    /\ reqs[w].ins = "ok"
    /\ Poisoned(lock)
    /\ reqs' = [reqs EXCEPT ![w] = Panicked(@)]
    /\ UNCHANGED <<users, filter, cache, nreq, claimed, added, fw, cw, marks, lock, sessions, leaves>>

\* a panic in username_filter::insert while its write guard is held
InsertPanic(w) ==
    /\ reqs[w].pc = "match"
    /\ reqs[w].ins = "ok"
    /\ Acquirable(lock)
    /\ lock' = [lock EXCEPT !.poisoned = TRUE]
    /\ reqs' = [reqs EXCEPT ![w] = Panicked(@)]
    /\ UNCHANGED <<users, filter, cache, nreq, claimed, added, fw, cw, marks, sessions, leaves>>

\* stream.next() yields Some(Ok(row)): push; a full batch is to be flushed
WarmupPush ==
    /\ fw.pc = "streaming"
    /\ fw.stream # <<>>
    /\ LET batch == Append(fw.batch, normalize(Head(fw.stream)))
       IN  fw' = [fw EXCEPT !.stream = Tail(@), !.batch = batch,
                            !.total = @ + 1,
                            !.seen = @ \cup {Head(fw.stream)},
                            !.pc = IF Len(batch) = FILTER_BATCH
                                   THEN "flush" ELSE "streaming"]
    /\ UNCHANGED <<users, filter, cache, reqs, nreq, claimed, added, cw, marks, lock, sessions, leaves>>

\* stream.next() yields None: a non-empty batch is to be flushed
WarmupNone ==
    /\ fw.pc = "streaming"
    /\ fw.stream = <<>>
    /\ fw' = [fw EXCEPT !.pc = IF fw.batch # <<>> THEN "lastflush" ELSE "done"]
    /\ UNCHANGED <<users, filter, cache, reqs, nreq, claimed, added, cw, marks, lock, sessions, leaves>>

\* insert_batch: USERNAME_FILTER.write()
InsertBatchWrite ==
    /\ fw.pc \in {"flush", "lastflush"}
    /\ Acquirable(lock)
    /\ lock' = [lock EXCEPT !.writer = "warmup"]
    /\ UNCHANGED <<users, filter, cache, reqs, nreq, claimed, added, fw, cw, marks, sessions, leaves>>

\* insert_batch finds the lock poisoned
InsertBatchPoisoned ==
    /\ fw.pc \in {"flush", "lastflush"}
    /\ Poisoned(lock)
    /\ fw' = [fw EXCEPT !.pc = "panicked"]
    /\ UNCHANGED <<users, filter, cache, reqs, nreq, claimed, added, cw, marks, lock, sessions, leaves>>

\* insert_batch: filter.add(username) for the next member of the batch
InsertBatchAdd ==
    /\ lock.writer = "warmup"
    /\ lock.adds < Len(fw.batch)
    /\ filter' = Add(filter, fw.batch[lock.adds + 1])
    /\ added' = added \cup {fw.batch[lock.adds + 1]}
    /\ lock' = [lock EXCEPT !.adds = @ + 1]
    /\ UNCHANGED <<users, cache, reqs, nreq, claimed, fw, cw, marks, sessions, leaves>>

InsertBatchKeepGuard ==
    /\ lock.writer = "warmup"
    /\ lock.adds = Len(fw.batch)
    /\ lock' = [lock EXCEPT !.adds = 0]
    /\ fw' = [fw EXCEPT !.batch = <<>>,
                        !.flushed = Append(@, Len(fw.batch)),
                        !.pc = IF fw.pc = "flush" THEN "streaming" ELSE "done"]
    /\ UNCHANGED <<users, filter, cache, reqs, nreq, claimed, added, cw, marks, sessions, leaves>>

\* insert_batch returns: the guard is dropped; batch.clear() or the end
InsertBatchReturn ==
    /\ lock.writer = "warmup"
    /\ lock.adds = Len(fw.batch)
    /\ lock' = [lock EXCEPT !.writer = "none", !.adds = 0]
    /\ fw' = [fw EXCEPT !.batch = <<>>,
                        !.flushed = Append(@, Len(fw.batch)),
                        !.pc = IF fw.pc = "flush" THEN "streaming" ELSE "done"]
    /\ UNCHANGED <<users, filter, cache, reqs, nreq, claimed, added, cw, marks, sessions, leaves>>

\* a panic while the write guard is held: unwinding drops the guard and
\* poisons the lock
InsertBatchPanic ==
    /\ lock.writer = "warmup"
    /\ lock' = [lock EXCEPT !.writer = "none", !.poisoned = TRUE, !.adds = 0]
    /\ fw' = [fw EXCEPT !.pc = "panicked"]
    /\ UNCHANGED <<users, filter, cache, reqs, nreq, claimed, added, cw, marks, sessions, leaves>>

InitLock == Init

NextLock ==
    \/ \E w \in Workers, raw \in RawNames, pw \in Passwords :
          LockedRegister(w, raw, pw)
    \/ \E w \in Workers, raw \in RawNames : LockedIsUsernameAvailable(w, raw)
    \/ \E w \in Workers, raw \in RawNames, kind \in {"register", "check"} :
          MightExistPoisoned(w, kind, raw)
    \/ \E w \in Workers : CheckCache(w)
    \/ \E w \in Workers : CheckDb(w)
    \/ \E w \in Workers : InsertUser(w)
    \/ \E w \in Workers : LockedMatchResult(w)
    \/ \E w \in Workers : InsertPoisoned(w)
    \/ \E w \in Workers : InsertPanic(w)
    \/ FilterWarmupQuery
    \/ FilterWarmupError
    \/ WarmupPush
    \/ WarmupNone
    \/ InsertBatchWrite
    \/ InsertBatchPoisoned
    \/ InsertBatchAdd
    \/ InsertBatchReturn
    \/ InsertBatchPanic

SpecLock == InitLock /\ [][NextLock]_vars

\* ------------------------------------------- refresh_token and logout
\* the bearer tokens a client may send: one that verify_token rejects, an
\* access token, or a refresh token of some jti (0 has no row)
TokenInputs(rt) ==
    {[type |-> "invalid", jti |-> 0], [type |-> "access", jti |-> 0]} \cup
    {[type |-> "refresh", jti |-> j] : j \in {0} \cup {r.jti : r \in rt}}

\* claims.token_type = Refresh after a successful verify_token
IsRefresh(token) == token.type = "refresh"

\* Uuid::new_v4: a jti no row has
NewJti(rt) == 1 + Cardinality(rt)

\* SELECT id, user_id, revoked FROM refresh_tokens WHERE jti = ?
FetchOptional(rt, jti) == {r \in rt : r.jti = jti}

\* UPDATE refresh_tokens SET revoked = TRUE WHERE id = ? (or WHERE jti = ?)
Revoke(rt, jti) == {IF r.jti = jti THEN [r EXCEPT !.revoked = TRUE] ELSE r : r \in rt}

\* a token request is handed to the first worker that is not serving one
TokenFree(w) ==
    /\ treqs[w].pc \in {"idle", "done"}
    /\ \A v \in Workers : v < w => treqs[v].pc \notin {"idle", "done"}

\* refresh_token up to the SELECT: header, verify_token, token_type
RefreshToken(w, token) ==
    /\ TokenFree(w)
    /\ nreq < MaxRequests
    /\ nreq' = nreq + 1
    /\ treqs' = [treqs EXCEPT ![w] =
                   IF IsRefresh(token)
                   THEN [NoToken EXCEPT !.kind = "refresh", !.token = token,
                                        !.pc = "select"]
                   ELSE [NoToken EXCEPT !.kind = "refresh", !.token = token,
                                        !.pc = "done", !.resp = "Unauthorized"]]
    /\ UNCHANGED <<uniqueness, refresh_tokens, leaves>>

\* the SELECT returns: only a row that is not revoked lets the request go on
RefreshSelect(w) ==
    /\ treqs[w].pc = "select"
    /\ LET found == FetchOptional(refresh_tokens, treqs[w].token.jti)
       IN  treqs' = [treqs EXCEPT ![w] =
                       IF \E r \in found : ~r.revoked
                       THEN [@ EXCEPT !.pc = "revoke", !.record = treqs[w].token.jti]
                       ELSE [@ EXCEPT !.pc = "done", !.resp = "Unauthorized"]]
    /\ UNCHANGED <<uniqueness, nreq, refresh_tokens, leaves>>

\* the UPDATE that revokes the row found
RefreshRevoke(w) ==
    /\ treqs[w].pc = "revoke"
    /\ refresh_tokens' = Revoke(refresh_tokens, treqs[w].record)
    /\ treqs' = [treqs EXCEPT ![w] = [@ EXCEPT !.pc = "insert"]]
    /\ UNCHANGED <<uniqueness, nreq, leaves>>

\* the INSERT of the new refresh token; the pair is sent
RefreshInsert(w) ==
    /\ treqs[w].pc = "insert"
    /\ LET jti == NewJti(refresh_tokens)
       IN  /\ refresh_tokens' = refresh_tokens \cup {[jti |-> jti, revoked |-> FALSE]}
           /\ treqs' = [treqs EXCEPT ![w] =
                          [@ EXCEPT !.pc = "done", !.resp = "Ok", !.issued = jti]]
    /\ UNCHANGED <<uniqueness, nreq, leaves>>

\* one of the three statements fails: `.unwrap()` panics, no response
RefreshUnwrapErr(w) ==
    /\ treqs[w].pc \in {"select", "revoke", "insert"}
    /\ treqs' = [treqs EXCEPT ![w] = [@ EXCEPT !.pc = "done", !.resp = "Panicked"]]
    /\ UNCHANGED <<uniqueness, nreq, refresh_tokens, leaves>>

\* logout up to the UPDATE: anything but a refresh token is answered at once
Logout(w, token) ==
    /\ TokenFree(w)
    /\ nreq < MaxRequests
    /\ nreq' = nreq + 1
    /\ treqs' = [treqs EXCEPT ![w] =
                   IF IsRefresh(token)
                   THEN [NoToken EXCEPT !.kind = "logout", !.token = token,
                                        !.pc = "logout"]
                   ELSE [NoToken EXCEPT !.kind = "logout", !.token = token,
                                        !.pc = "done", !.resp = "NoContent"]]
    /\ UNCHANGED <<uniqueness, refresh_tokens, leaves>>

\* UPDATE refresh_tokens SET revoked = 1 WHERE jti = ?, its result ignored
LogoutRevoke(w) ==
    /\ treqs[w].pc = "logout"
    /\ refresh_tokens' \in {Revoke(refresh_tokens, treqs[w].token.jti), refresh_tokens}
    /\ treqs' = [treqs EXCEPT ![w] = [@ EXCEPT !.pc = "done", !.resp = "NoContent"]]
    /\ UNCHANGED <<uniqueness, nreq, leaves>>

InitTokens == Init /\ users = {}

NextTokens ==
    \/ \E w \in Workers, token \in TokenInputs(refresh_tokens) : RefreshToken(w, token)
    \/ \E w \in Workers : RefreshSelect(w)
    \/ \E w \in Workers : RefreshRevoke(w)
    \/ \E w \in Workers : RefreshInsert(w)
    \/ \E w \in Workers : RefreshUnwrapErr(w)
    \/ \E w \in Workers, token \in TokenInputs(refresh_tokens) : Logout(w, token)
    \/ \E w \in Workers : LogoutRevoke(w)

SpecTokens == InitTokens /\ [][NextTokens]_vars

\* ------------------------------------------- approve_leave and reject_leave
Roles == {"admin", "hr", "employee"}

\* ids a client may put in the path: 3 has no row
LeaveIds == {1, 2, 3}

\* AuthUser::require_hr_or_admin
require_hr_or_admin(role) == role \in {"admin", "hr"}

rows_affected_any_status(lr, leave_id) ==
    Cardinality({r \in lr : r.id = leave_id})

\* rows_affected() of UPDATE .. WHERE id = ? AND status = 'pending'
rows_affected(lr, leave_id) ==
    Cardinality({r \in lr : r.id = leave_id /\ r.status = "pending"})

\* the table after UPDATE leave_requests SET status = ? WHERE id = ? AND
\* status = 'pending'
UpdatePending(lr, leave_id, status) ==
    IF rows_affected(lr, leave_id) = 0 THEN lr
    ELSE {IF r.id = leave_id
          THEN [r EXCEPT !.status = status, !.updates = @ + 1]
          ELSE r : r \in lr}

\* a leave request is handed to the first worker that is not serving one
LeaveFree(w) ==
    /\ lreqs[w].pc \in {"idle", "done"}
    /\ \A v \in Workers : v < w => lreqs[v].pc \notin {"idle", "done"}

\* approve_leave or reject_leave up to the UPDATE: the role is checked
DecideLeave(w, kind, role, leave_id) ==
    /\ LeaveFree(w)
    /\ nreq < MaxRequests
    /\ nreq' = nreq + 1
    /\ lreqs' = [lreqs EXCEPT ![w] =
                   IF require_hr_or_admin(role)
                   THEN [NoLeave EXCEPT !.kind = kind, !.leave_id = leave_id,
                                        !.pc = "update"]
                   ELSE [NoLeave EXCEPT !.kind = kind, !.leave_id = leave_id,
                                        !.pc = "done", !.resp = "Forbidden"]]
    /\ UNCHANGED <<uniqueness, sessions, leave_requests>>

\* the UPDATE runs: 200 when it changed a row, 400 when it changed none
LeaveUpdate(w) ==
    /\ lreqs[w].pc = "update"
    /\ LET r == lreqs[w]
           status == IF r.kind = "approve" THEN "approved" ELSE "rejected"
       IN  /\ leave_requests' = UpdatePending(leave_requests, r.leave_id, status)
           /\ lreqs' = [lreqs EXCEPT ![w] =
                          [r EXCEPT !.pc = "done",
                                    !.resp = IF rows_affected(leave_requests,
                                                              r.leave_id) = 0
                                             THEN "BadRequest" ELSE "Ok"]]
    /\ UNCHANGED <<uniqueness, sessions, nreq>>

\* the UPDATE fails: map_err answers 500
LeaveUpdateErr(w) ==
    /\ lreqs[w].pc = "update"
    /\ lreqs' = [lreqs EXCEPT ![w] =
                   [@ EXCEPT !.pc = "done", !.resp = "InternalError"]]
    /\ UNCHANGED <<uniqueness, sessions, nreq, leave_requests>>

InitLeave == Init /\ users = {}

NextLeave ==
    \/ \E w \in Workers, kind \in {"approve", "reject"}, role \in Roles,
          leave_id \in LeaveIds : DecideLeave(w, kind, role, leave_id)
    \/ \E w \in Workers : LeaveUpdate(w)
    \/ \E w \in Workers : LeaveUpdateErr(w)

SpecLeave == InitLeave /\ [][NextLeave]_vars




\* ------------------------------------------------------------ properties
Conflicts == {"ConflictTaken", "ConflictExists"}

\* worker w is handed a request in this step
Arrives(w) == Free(w) /\ nreq' = nreq + 1

\* no call to the store failed while the request was served
NoStoreError(r) == r.lookup # "error" /\ r.ins # "error"

\* w1 and w2 have both answered a valid registration of the same username,
\* which had no row when either of them arrived
RacedPair(w1, w2) ==
    /\ w1 # w2
    /\ reqs[w1].kind = "register" /\ reqs[w2].kind = "register"
    /\ reqs[w1].pc = "done" /\ reqs[w2].pc = "done"
    /\ reqs[w1].raw = reqs[w2].raw
    /\ reqs[w1].resp # "BadRequest" /\ reqs[w2].resp # "BadRequest"
    /\ reqs[w1].fresh /\ reqs[w2].fresh
    /\ NoStoreError(reqs[w1]) /\ NoStoreError(reqs[w2])

\* C1: of two concurrent registrations of the same fresh username, served
\* without a store failure, exactly one is answered Created and the other
\* Conflict; whichever wins, the winner made the one filter insert of the
\* normalized username, the loser changed neither the filter nor the cache,
\* and the winner wrote nothing to the cache but that username.
C1_ExactlyOneClaimWins ==
    \A w1, w2 \in Workers :
        RacedPair(w1, w2) =>
            \E w \in {w1, w2} :
                LET l == CHOOSE x \in {w1, w2} : x # w
                    u == normalize(trim(reqs[w].raw))
                IN  /\ reqs[w].resp = "Created"
                    /\ reqs[l].resp \in Conflicts
                    /\ reqs[w].fadd = {Hash(u)}
                    /\ reqs[w].cput \subseteq {u}
                    /\ reqs[l].fadd = {} /\ reqs[l].cput = {}
                    /\ might_exist(filter, u)

\* both requests passed the availability check and raced into the INSERT
C1_Witness ==
    \E w1, w2 \in Workers :
        /\ RacedPair(w1, w2)
        /\ reqs[w1].resp = "Created"
        /\ reqs[w2].resp = "ConflictExists"

\* C2: an availability check that arrives after the registration of the same
\* raw username was answered Created does not answer "available".
C2_ClaimedIsUnavailable ==
    [][\A w \in Workers :
          (Arrives(w) /\ reqs'[w].kind = "check" /\ reqs'[w].raw \in claimed)
              => reqs'[w].avail # "yes"]_vars

\* the store's answer, when it answers
StoreSays(u, username) == IF select_exists(u, username) THEN "exists" ELSE "absent"

\* C3: every step of is_username_available follows the cascade: a filter
\* miss answers available having consulted the filter only; a filter hit
\* goes to the cache; a live cache entry answers unavailable without the
\* store; a cache miss always goes to the store, whose answer (when it
\* answers) is negated.
C3_CascadeReference ==
    [][\A w \in Workers :
          LET r == reqs[w]
              n == reqs'[w]
              key == to_lowercase(n.raw)
          IN  /\ (Arrives(w) /\ n.resp # "BadRequest") =>
                    IF filter[Hash(key)] = 0
                    THEN n.avail = "yes" /\ n.tiers = {"filter"}
                         /\ n.lookup = "none"
                    ELSE n.avail = "none" /\ n.pc = "cache"
              /\ (r.pc = "cache" /\ n # r) =>
                    IF \E e \in cache : e.key = key /\ e.val /\ e.age < CACHE_TTL
                    THEN n.avail = "no" /\ n.tiers = {"filter", "cache"}
                         /\ n.lookup = "none"
                    ELSE n.avail = "none" /\ n.pc = "db"
              /\ (r.pc = "db" /\ n # r) =>
                    /\ n.tiers = {"filter", "cache", "store"}
                    /\ n.lookup \in {"error", StoreSays(users, key)}
                    /\ n.lookup = "exists" => n.avail = "no"
                    /\ n.lookup = "absent" => n.avail = "yes"]_vars

\* a filter false positive and a cache miss: the store says absent
C3_Witness ==
    \E w \in Workers :
        /\ reqs[w].tiers = {"filter", "cache", "store"}
        /\ reqs[w].lookup = "absent"
        /\ reqs[w].avail = "yes"

\* C4: when the existence lookup fails, is_username_available returns false:
\* the caller sees "unavailable" (a conflict, in register), never an error
\* and never "available".
C4_LookupErrorIsUnavailable ==
    \A w \in Workers :
        reqs[w].lookup = "error" =>
            /\ reqs[w].avail = "no"
            /\ reqs[w].pc = "done"
            /\ reqs[w].resp = IF reqs[w].kind = "check" THEN "Unavailable"
                              ELSE "ConflictTaken"

C4_Witness ==
    \E w \in Workers :
        reqs[w].kind = "check" /\ reqs[w].lookup = "error" /\ reqs[w].pc = "done"

\* C5: every item the filter was asked to add, by a registration or by a
\* warmup batch, is reported maybe-present ever after, and no step removes
\* anything from the filter.
C5_NoFalseNegatives ==
    /\ [](\A item \in added : Contains(filter, item))
    /\ [][\A s \in Slots : filter'[s] >= filter[s]]_vars

\* a registration added one item and the warmup another, of another hash
C5_Witness ==
    /\ \E raw \in claimed :
         \E item \in added : Hash(item) # Hash(normalize(trim(raw)))
    /\ fw.flushed # <<>>

\* C6: an availability check for a username that has a row, arriving while
\* the filter warmup has not completed (not started, streaming, or failed),
\* does not answer "available".
C6_PartialWarmupIsNeutral ==
    [][\A w \in Workers :
          (/\ Arrives(w)
           /\ reqs'[w].kind = "check"
           /\ select_exists(users, reqs'[w].raw)
           /\ fw.pc \in {"spawned", "streaming", "failed"})
              => reqs'[w].avail # "yes"]_vars

\* C7: an availability check for a case variant of a username whose
\* registration was answered Created does not answer "available".
C7_CaseVariantsUnavailable ==
    [][\A w \in Workers :
          (/\ Arrives(w)
           /\ reqs'[w].kind = "check"
           /\ \E c \in claimed :
                 c # reqs'[w].raw /\ to_lowercase(c) = to_lowercase(reqs'[w].raw))
              => reqs'[w].avail # "yes"]_vars

\* C8: a registration whose INSERT violated the unique key is answered
\* Conflict, and no step of a registration other than the Ok arm of
\* insert_user changes the filter or the cache.
C8_ConflictLeavesTiers ==
    [][\A w \in Workers :
          (reqs'[w] # reqs[w] /\ reqs'[w].kind = "register") =>
              /\ (reqs[w].pc = "match" /\ reqs[w].ins = "dup") =>
                    /\ reqs'[w].resp = "ConflictExists"
                    /\ reqs'[w].pc = "done"
              /\ ~(reqs[w].pc = "match" /\ reqs[w].ins = "ok") =>
                    filter' = filter /\ cache' = cache]_vars

C8_Witness ==
    \E w \in Workers :
        reqs[w].ins = "dup" /\ reqs[w].pc = "done" /\ reqs[w].resp = "ConflictExists"

\* C9: once insert_user has resumed from a successful INSERT, the normalized
\* username is in the filter and marked taken in the cache.
C9_PostWriteUpdatesBoth ==
    [][\A w \in Workers :
          (reqs[w].pc = "match" /\ reqs[w].ins = "ok" /\ reqs'[w].pc = "done") =>
              /\ might_exist(filter', trim(reqs[w].raw))
              /\ is_taken(cache', trim(reqs[w].raw))]_vars

\* C10: a registration during which a store call failed with an error other
\* than the unique-key violation is answered InternalError, and changed
\* neither the filter nor the cache.
C10_StoreErrorIsInternal ==
    \A w \in Workers :
        (reqs[w].kind = "register" /\ reqs[w].pc = "done"
            /\ ~NoStoreError(reqs[w])) =>
                /\ reqs[w].resp = "InternalError"
                /\ reqs[w].fadd = {} /\ reqs[w].cput = {}

\* C11: every registration with a non-empty username and password has the
\* INSERT attempted before it is answered.
C11_InsertAlwaysAttempted ==
    \A w \in Workers :
        (reqs[w].kind = "register" /\ reqs[w].pc = "done"
            /\ reqs[w].resp # "BadRequest") => reqs[w].ins # "none"

\* a registration of a username that had a row when it arrived, answered
\* with a conflict and without a store failure
TakenConflict(w) ==
    /\ reqs[w].kind = "register" /\ reqs[w].pc = "done"
    /\ ~reqs[w].fresh
    /\ NoStoreError(reqs[w])
    /\ reqs[w].resp \in Conflicts

\* C12: registrations of an already-taken username are answered with one and
\* the same conflict response, whichever tier found the username taken.
C12_UniformConflictResponse ==
    \A w1, w2 \in Workers :
        (TakenConflict(w1) /\ TakenConflict(w2)) => reqs[w1].resp = reqs[w2].resp

\* C13: no step of is_username_available (the filter check on arrival, the
\* cache check, the store lookup with any answer) changes the users table,
\* the filter or the cache.
C13_AvailabilityIsPureRead ==
    [][\A w \in Workers :
          (Arrives(w) \/ (reqs[w].pc \in {"cache", "db"} /\ reqs'[w] # reqs[w]))
              => users' = users /\ filter' = filter /\ cache' = cache]_vars

\* a check went down to the store, which said the username exists
C13_Witness ==
    \E w \in Workers :
        reqs[w].kind = "check" /\ reqs[w].pc = "done" /\ reqs[w].lookup = "exists"

\* C14: every cache entry holds the value true (taken); is_taken answers
\* false for a key only when the cache has no unexpired entry of that key.
C14_CacheHoldsOnlyTaken ==
    /\ \A e \in cache : e.val = TRUE
    /\ \A raw \in RawNames \cup AllUsernames(users) :
         ~is_taken(cache, raw) =>
            ~\E e \in cache : e.key = to_lowercase(raw) /\ e.age < CACHE_TTL

\* the cache warmup has marked a batch
C14_Witness == cw.flushed # <<>> /\ \E e \in cache : Live(e)

\* an entry of the key was inserted and its time to live has elapsed
Expired(c, key) == \E e \in c : e.key = key /\ e.age >= CACHE_TTL

\* the cache answers by the age of its entries
TtlRule ==
    \A e \in cache :
        /\ e.age < CACHE_TTL => is_taken(cache, e.key)
        /\ e.age >= CACHE_TTL => ~is_taken(cache, e.key)

\* C15: a marked username is reported taken by the cache while less than the
\* time to live has elapsed since its insertion and not after; once its
\* entry has expired, an availability check for it, when it has a row in
\* the store, still does not answer "available".
C15_ExpiryFallsBackToStore ==
    [][/\ TtlRule /\ TtlRule'
       /\ \A w \in Workers :
            (/\ Arrives(w)
             /\ reqs'[w].kind = "check"
             /\ Expired(cache, to_lowercase(reqs'[w].raw))
             /\ select_exists(users, reqs'[w].raw))
                => reqs'[w].avail # "yes"]_vars

\* C16 (as stated): mark_taken of a username that the cache reports taken
\* leaves the cache as it was, the age of the entry included.
C16_MarkTakenIsNoOp ==
    [][\A username \in RawNames :
          (MarkTaken(username) /\ is_taken(cache, username)) => cache' = cache]_vars

\* C16 (amended): mark_taken of a username that the cache reports taken
\* keeps it taken and keeps every other unexpired entry, but stamps the
\* entry anew: the age of every entry is the time since the latest
\* mark_taken of its key, not since the first.
C16_MarkTakenRestartsTtl ==
    /\ [](\A e \in cache :
            e.val /\ \E m \in marks : m.key = e.key /\ m.since = e.age)
    /\ [][\A username \in RawNames :
            (MarkTaken(username) /\ is_taken(cache, username)) =>
                /\ is_taken(cache', username)
                /\ \A e \in cache :
                     (Live(e) /\ e.key # to_lowercase(username)) => e \in cache']_vars

\* a username was marked again while its entry was live and not new
C16_Witness ==
    \E m \in marks :
        /\ m.calls = 2 /\ m.since = 0
        /\ \E e \in cache : e.key = m.key /\ e.age = 0
        /\ \E e \in cache : e.key # m.key /\ e.age = 1

\* C17: whatever the state of the two warmup tasks, a request can be
\* accepted when a worker is free and every request in progress can take its
\* next step; each warmup task can take its next step whatever the state of
\* the other (also after the other has failed), and a step of one task
\* leaves the other task as it was.
C17_WarmupsAreDetached ==
    /\ [](/\ (nreq < MaxRequests /\ \E w \in Workers : reqs[w].pc \in {"idle", "done"})
              => /\ ENABLED (\E w \in Workers, raw \in RawNames :
                               IsUsernameAvailable(w, raw))
                 /\ ENABLED (\E w \in Workers, raw \in RawNames, pw \in Passwords :
                               Register(w, raw, pw))
          /\ \A w \in Workers :
                /\ reqs[w].pc = "cache" => ENABLED CheckCache(w)
                /\ reqs[w].pc = "db" => ENABLED CheckDb(w)
                /\ reqs[w].pc = "insert" => ENABLED InsertUser(w)
                /\ reqs[w].pc = "match" => ENABLED MatchResult(w)
          /\ fw.pc = "spawned" => ENABLED FilterWarmupQuery
          /\ fw.pc = "streaming" => ENABLED (FilterWarmupRow \/ FilterWarmupEnd)
          /\ cw.pc = "spawned" => ENABLED CacheWarmupQuery
          /\ cw.pc = "streaming" => ENABLED (CacheWarmupRow \/ CacheWarmupEnd))
    /\ [][(fw' # fw => cw' = cw) /\ (cw' # cw => fw' = fw)]_vars

\* the filter warmup has failed, the cache warmup is still streaming and a
\* request is on its way to the store
C17_Witness ==
    /\ fw.pc = "failed"
    /\ cw.pc = "streaming"
    /\ \E w \in Workers : reqs[w].pc = "db"

\* ------------------------------------------------------------------- C18
\* the batches an error-free filter warmup has flushed: ceil(n/b) of them,
\* each of FILTER_BATCH rows but a final one of n mod b rows
BatchesFlushed ==
    /\ fw.total = Cardinality(fw.seen)
    /\ Len(fw.flushed) = (fw.total + FILTER_BATCH - 1) \div FILTER_BATCH
    /\ \A i \in DOMAIN fw.flushed :
         fw.flushed[i] = IF i < Len(fw.flushed) \/ fw.total % FILTER_BATCH = 0
                         THEN FILTER_BATCH
                         ELSE fw.total % FILTER_BATCH

\* the cursor delivers the rows of the table, and each row joins the batch
\* in the order of delivery; a full batch goes to the filter as it stands
StreamOrder ==
    /\ (fw.pc = "spawned" /\ fw'.pc = "streaming")
          => /\ Len(fw'.stream) = Cardinality(AllUsernames(users))
             /\ {fw'.stream[i] : i \in DOMAIN fw'.stream} = AllUsernames(users)
    /\ (fw.pc = "streaming" /\ fw'.pc = "streaming" /\ fw' # fw)
          => LET batch == Append(fw.batch, normalize(Head(fw.stream)))
             IN  /\ fw'.stream = Tail(fw.stream)
                 /\ \/ fw'.batch = batch /\ filter' = filter
                    \/ /\ fw'.batch = <<>>
                       /\ Len(batch) = FILTER_BATCH
                       /\ filter' = insert_batch(filter, batch)

\* C18 as stated: an error-free filter warmup over n rows flushes ceil(n/b)
\* batches in stream order, of b rows each but a final one of n mod b; then
\* might_exist holds of the n usernames and fails of every username that
\* was never inserted.
C18_WarmupBatchesExact ==
    /\ [](fw.pc = "done" =>
            /\ BatchesFlushed
            /\ \A u \in fw.seen : might_exist(filter, u)
            /\ \A x \in RawNames :
                  normalize(x) \notin added => ~might_exist(filter, x))
    /\ [][StreamOrder]_vars

\* C18 amended: as above, but might_exist is only known to fail of a
\* username whose hash no inserted username shares; a never inserted
\* username that collides with an inserted one is reported as present.
C18_WarmupBatches ==
    /\ [](fw.pc = "done" =>
            /\ BatchesFlushed
            /\ \A u \in fw.seen : might_exist(filter, u)
            /\ \A x \in RawNames :
                  (\A y \in added : Hash(y) # Hash(normalize(x)))
                      => ~might_exist(filter, x))
    /\ [][StreamOrder]_vars

\* a warmup over three rows is done: a full batch, then one of a single row
C18_Witness ==
    /\ fw.pc = "done"
    /\ fw.flushed = <<FILTER_BATCH, 1>>
    /\ Cardinality(fw.seen) = 3
    /\ \A u \in fw.seen : might_exist(filter, u)
    /\ \E x \in RawNames : normalize(x) \notin added /\ might_exist(filter, x)

\* a warmup is done and a username no inserted one collides with is absent
C18_AbsentReached ==
    /\ fw.pc = "done"
    /\ fw.flushed # <<>>
    /\ \E x \in RawNames : ~might_exist(filter, x)

\* ------------------------------------------------------------------- C19
\* C19: while the users table is empty, a warmup whose cursor has opened
\* can only end, and ends having flushed no batch; the filter and the cache
\* are empty; and every availability check has answered true.
C19_EmptyStore ==
    users = {} =>
        /\ fw.pc = "streaming" => fw.stream = <<>> /\ ENABLED FilterWarmupEnd
        /\ cw.pc = "streaming" => cw.stream = <<>> /\ ENABLED CacheWarmupEnd
        /\ fw.pc = "done" => fw.flushed = <<>> /\ fw.total = 0
        /\ cw.pc = "done" => cw.flushed = <<>> /\ cw.total = 0
        /\ filter = EmptyFilter
        /\ cache = {}
        /\ \A raw \in RawNames : ~might_exist(filter, raw)
        /\ \A w \in Workers :
              reqs[w].kind = "check" => reqs[w].pc = "done" /\ reqs[w].avail = "yes"

\* both warmups are done on an empty table and a check has been answered
C19_Witness ==
    /\ users = {}
    /\ fw.pc = "done"
    /\ cw.pc = "done"
    /\ \E w \in Workers : reqs[w].kind = "check" /\ reqs[w].avail = "yes"

\* ------------------------------------------------------------------- C20
\* C20: while a registration has had its INSERT succeed and has not yet
\* inserted its username into the filter, an availability check of that
\* username that arrives is not answered true.
C20_WindowFallsThrough ==
    [][\A w, v \in Workers :
          (/\ Arrives(w)
           /\ reqs'[w].kind = "check"
           /\ reqs[v].pc = "match"
           /\ reqs[v].ins = "ok"
           /\ to_lowercase(reqs'[w].raw) = to_lowercase(trim(reqs[v].raw)))
              => reqs'[w].avail # "yes"]_vars

C22_OneNormalForm ==
    \A w \in Workers :
        (reqs[w].kind = "register" /\ reqs[w].resp = "Created")
            => /\ to_lowercase(reqs[w].raw) \in AllUsernames(users)
               /\ to_lowercase(reqs[w].raw) \in added

\* ------------------------------------------------------------------- C23
RECURSIVE SeqSum(_)
SeqSum(q) == IF q = <<>> THEN 0 ELSE Head(q) + SeqSum(Tail(q))

\* the step in which task t meets a read error of its cursor
Aborts(t) == t.pc = "streaming" /\ t'.pc = "failed"

\* a task that has ended takes no further step: no retry, no later insert
Ended(t) == t.pc \in {"failed", "done"} => t' = t

\* C23: the step in which a warmup meets a read error leaves the filter and
\* the cache as they are, with the batches flushed before still counted and
\* the accumulated batch unflushed; a failed or completed task never runs
\* again; and a task completes only with its cursor exhausted and every row
\* it was delivered flushed.
C23_WarmupAbortsCleanly ==
    /\ [](/\ fw.pc \in {"failed", "done"} =>
                ~ENABLED (FilterWarmupQuery \/ FilterWarmupRow \/
                          FilterWarmupEnd \/ FilterWarmupError)
          /\ cw.pc \in {"failed", "done"} =>
                ~ENABLED (CacheWarmupQuery \/ CacheWarmupRow \/
                          CacheWarmupEnd \/ CacheWarmupError)
          /\ fw.pc = "failed" => SeqSum(fw.flushed) + Len(fw.batch) = fw.total
          /\ cw.pc = "failed" => SeqSum(cw.flushed) + Len(cw.batch) = cw.total
          /\ fw.pc = "done" =>
                fw.stream = <<>> /\ fw.batch = <<>> /\ SeqSum(fw.flushed) = fw.total
          /\ cw.pc = "done" =>
                cw.stream = <<>> /\ cw.batch = <<>> /\ SeqSum(cw.flushed) = cw.total)
    /\ [][/\ Aborts(fw) =>
               /\ filter' = filter /\ added' = added /\ cache' = cache
               /\ fw'.flushed = fw.flushed /\ fw'.batch = fw.batch
          /\ Aborts(cw) =>
               /\ filter' = filter /\ cache' = cache
               /\ cw'.flushed = cw.flushed /\ cw'.batch = cw.batch
          /\ Ended(fw) /\ Ended(cw)
          /\ (fw.pc = "streaming" /\ fw'.pc = "done") =>
               filter' = insert_batch(filter, fw.batch)
          /\ (cw.pc = "streaming" /\ cw'.pc = "done") =>
               cache' \in batch_mark(cache, cw.batch)]_vars

\* both tasks failed after a first flush; the filter task had one more row
\* in its batch
C23_Witness ==
    /\ fw.pc = "failed"
    /\ fw.flushed = <<FILTER_BATCH>>
    /\ fw.batch # <<>>
    /\ cw.pc = "failed"
    /\ cw.flushed = <<CACHE_BATCH>>

\* ------------------------------------------------------------------- C24
\* C24: the filter warmup holds the write lock only inside a flush, never
\* while it reads from its cursor; one hold makes at most FILTER_BATCH adds;
\* while the warmup is between flushes and the lock is not poisoned, a
\* request can take the lock for might_exist and a registration for its
\* insert; and no request reads the filter while a batch is partly added.
C24_LockScopedPerBatch ==
    /\ [](/\ lock.writer = "warmup" => fw.pc \in {"flush", "lastflush"}
          /\ lock.adds <= FILTER_BATCH
          /\ lock.writer = "none" => lock.adds = 0
          /\ (fw.pc = "streaming" /\ ~lock.poisoned) =>
                /\ Acquirable(lock)
                /\ (nreq < MaxRequests /\ \E w \in Workers : Free(w)) =>
                      ENABLED (\E w \in Workers, raw \in RawNames :
                                  LockedIsUsernameAvailable(w, raw))
                /\ \A w \in Workers :
                      reqs[w].pc = "match" => ENABLED LockedMatchResult(w))
    /\ [][\A w \in Workers :
            (Arrives(w) /\ "filter" \in reqs'[w].tiers)
                => lock.writer = "none" /\ lock.adds = 0]_vars

\* the warmup holds the lock for its second flush; a check that read the
\* filter after the first flush found its username there
C24_Witness ==
    /\ lock.writer = "warmup"
    /\ fw.pc = "lastflush"
    /\ fw.flushed = <<FILTER_BATCH>>
    /\ \E w \in Workers :
          /\ reqs[w].kind = "check"
          /\ reqs[w].pc = "db"
          /\ normalize(reqs[w].raw) \in added

\* ------------------------------------------------------------------- C25
\* C25: a request that calls might_exist while the filter's lock is
\* poisoned is not failed: might_exist counts as "maybe present" and the
\* request goes on to the cache.
C25_PoisonedLockFailsSafe ==
    [][\A w \in Workers :
          (Arrives(w) /\ lock.poisoned /\ reqs'[w].resp # "BadRequest")
              => /\ reqs'[w].resp # "Panicked"
                 /\ reqs'[w].pc = "cache"]_vars

\* ------------------------------------------------------------------- C26
\* the cache warmup reads the rows inside the window and no other, marks a
\* batch when it has CACHE_BATCH rows and the rest at the end of the
\* stream, and puts no key into the cache but those of rows it read
WindowBatches ==
    /\ cw.seen \subseteq RecentUsernames(users)
    /\ \A e \in cache : \E u \in cw.seen : e.key = to_lowercase(u) /\ e.val
    /\ cw.pc = "done" =>
          /\ cw.total = Cardinality(cw.seen)
          /\ Len(cw.flushed) = (cw.total + CACHE_BATCH - 1) \div CACHE_BATCH
          /\ \A i \in DOMAIN cw.flushed :
                cw.flushed[i] = IF i < Len(cw.flushed) \/ cw.total % CACHE_BATCH = 0
                                THEN CACHE_BATCH
                                ELSE cw.total % CACHE_BATCH

WindowStream ==
    (cw.pc = "spawned" /\ cw'.pc = "streaming")
        => {cw'.stream[i] : i \in DOMAIN cw'.stream} = RecentUsernames(users)

InsertWindow == \E w \in Workers : reqs[w].pc = "match" /\ reqs[w].ins = "ok"

\* C27: once the filter warmup is done, in every state outside the window
\* of a registration the filter reports every username of the users table
\* as possibly present, and a step taken in such a state never makes a
\* request answer "available" for a username that has a row.
C27_FilterCoversStore ==
    /\ []((fw.pc = "done" /\ ~InsertWindow) =>
             \A u \in AllUsernames(users) : might_exist(filter, u))
    /\ [][(fw.pc = "done" /\ ~InsertWindow) =>
             \A w \in Workers :
                 (/\ Arrives(w) \/ reqs[w].avail # "yes"
                  /\ reqs'[w].avail = "yes")
                     => ~select_exists(users, to_lowercase(reqs'[w].raw))]_vars

\* the warmup is done, a username registered after its cursor was opened is
\* in the table, and a later check of that username was answered "taken"
C27_Witness ==
    /\ fw.pc = "done"
    /\ ~InsertWindow
    /\ \E raw \in claimed, w \in Workers :
          /\ trim(raw) \notin fw.seen
          /\ reqs[w].kind = "check"
          /\ reqs[w].avail = "no"
          /\ to_lowercase(reqs[w].raw) = normalize(trim(raw))

\* ------------------------------------------------------------------- C28
\* C28: every item of the filter and every key of the cache is the
\* normalized username of a row of the users table; the filter changes
\* only in a step of the warmup or of a registration whose INSERT
\* succeeded, the cache gains a key only in a step of its warmup; and a
\* check answered "taken" by the cache concerns a username that has a row.
C28_TiersHoldOnlyStored ==
    /\ [](/\ \A item \in added :
                \E u \in AllUsernames(users) : normalize(u) = item
          /\ \A s \in Slots :
                filter[s] > 0 => \E item \in added : Hash(item) = s
          /\ \A e \in cache :
                \E u \in AllUsernames(users) : to_lowercase(u) = e.key
          /\ \A w \in Workers :
                (reqs[w].avail = "no" /\ reqs[w].tiers = {"filter", "cache"})
                    => select_exists(users, to_lowercase(reqs[w].raw)))
    /\ [][/\ filter' # filter =>
                \/ fw' # fw
                \/ \E w \in Workers : /\ reqs[w].pc = "match"
                                      /\ reqs[w].ins = "ok"
                                      /\ reqs'[w].pc = "done"
          /\ {e.key : e \in cache'} \ {e.key : e \in cache} # {} => cw' # cw]_vars

\* a check was answered "taken" by the cache, and a registration of a
\* username without a row failed in the store
C28_Witness ==
    \E w, v \in Workers :
        /\ reqs[w].avail = "no"
        /\ reqs[w].tiers = {"filter", "cache"}
        /\ reqs[v].kind = "register"
        /\ reqs[v].fresh
        /\ reqs[v].ins = "error"
        /\ reqs[v].pc = "done"

\* ------------------------------------------------------------------- C29
\* C29: of the refresh requests that present one refresh token at most one
\* is answered with a new pair; a request whose SELECT runs when the token's
\* row is revoked is answered Unauthorized; and a logout is answered
\* NoContent whatever the token, changing no row but the token's.
C29_RefreshTokenSingleUse ==
    /\ [](\A w, v \in Workers :
            (/\ w # v
             /\ treqs[w].resp = "Ok" /\ treqs[v].resp = "Ok")
                => treqs[w].token # treqs[v].token)
    /\ [][\A w \in Workers :
            /\ (/\ treqs[w].pc = "select"
                /\ treqs'[w].pc # "select"
                /\ \A r \in FetchOptional(refresh_tokens, treqs[w].token.jti) : r.revoked)
                  => treqs'[w].resp \in {"Unauthorized", "Panicked"}
            /\ (treqs[w].pc = "logout" /\ treqs'[w].pc = "done")
                  => /\ treqs'[w].resp = "NoContent"
                     /\ \A r \in refresh_tokens :
                           r.jti # treqs[w].token.jti => r \in refresh_tokens']_vars

\* ------------------------------------------------------------------- C30
\* C30: the status of a leave request changes only from pending, to
\* approved or to rejected, and at most once; the request whose UPDATE
\* finds the row pending is answered 200 and is the one that changes it,
\* every request whose UPDATE finds it missing or processed is answered
\* "not found or already processed" and changes nothing.
C30_LeaveDecidedOnce ==
    /\ [](/\ \A r \in leave_requests :
                /\ r.updates <= 1
                /\ r.status = "pending" <=> r.updates = 0
                /\ r.status \in {"pending", "approved", "rejected"}
          /\ \A w, v \in Workers :
                (/\ w # v
                 /\ lreqs[w].resp = "Ok" /\ lreqs[v].resp = "Ok")
                    => lreqs[w].leave_id # lreqs[v].leave_id)
    /\ [][/\ \A r \in leave_requests :
                r \in leave_requests'
                \/ /\ r.status = "pending"
                   /\ \E s \in leave_requests' :
                         /\ s.id = r.id
                         /\ s.status \in {"approved", "rejected"}
          /\ \A w \in Workers :
                (lreqs[w].pc = "update" /\ lreqs'[w].pc = "done")
                    => \/ /\ lreqs'[w].resp = "Ok"
                          /\ \E r \in leave_requests :
                                r.id = lreqs[w].leave_id /\ r.status = "pending"
                          /\ \E s \in leave_requests' :
                                /\ s.id = lreqs[w].leave_id
                                /\ s.status = IF lreqs[w].kind = "approve"
                                              THEN "approved" ELSE "rejected"
                       \/ /\ lreqs'[w].resp = "BadRequest"
                          /\ ~\E r \in leave_requests :
                                r.id = lreqs[w].leave_id /\ r.status = "pending"
                          /\ leave_requests' = leave_requests
                       \/ /\ lreqs'[w].resp = "InternalError"
                          /\ leave_requests' = leave_requests]_vars

\* an approve and a reject of one leave request raced: one was answered
\* 200, the other 400
C30_Witness ==
    \E w, v \in Workers :
        /\ lreqs[w].leave_id = lreqs[v].leave_id
        /\ lreqs[w].kind = "approve" /\ lreqs[w].resp = "BadRequest"
        /\ lreqs[v].kind = "reject" /\ lreqs[v].resp = "Ok"
        /\ \E r \in leave_requests :
              r.id = lreqs[v].leave_id /\ r.status = "rejected"

====
